---- MODULE Spec2Model ----
(***************************************************************************)
(* dumpfloppy: the disk model (disk.c) and the acquisition engine          *)
(* (probe_track, read_track, probe_disk, write_imd_track, process_floppy). *)
(*                                                                         *)
(* The controller is the environment: every ID read and every data read    *)
(* is answered by a reply the environment chooses.  A C function is an     *)
(* operator from its arguments and the controller's replies to its result; *)
(* an action applies one function and keeps what it did in `last'.         *)
(***************************************************************************)
EXTENDS Integers, Sequences, FiniteSets, TLC

(***************************************************************************)
(* Program constants.                                                      *)
(***************************************************************************)
NUM_HEADS == 2
UNSET == 255
\* disk.h is not among the sources.  seen[MAX_SECS] is indexed by log_sector, a
\* byte of the controller's reply, and EMPTY_SECTOR stores 0xFF there.
MAX_SECS == UNSET + 1
NUM_MODES == 7
SAMPLE_READS == 30
REF_CYL == 2
MAX_TRIES == 10
IMD_NEED_CYL_MAP == 128
IMD_NEED_HEAD_MAP == 64
IMD_SDR_UNAVAILABLE == 0
IMD_SDR_NORMAL == 1

(***************************************************************************)
(* Bounds of the model.                                                    *)
(***************************************************************************)
\* logical sector ids the medium carries are 0..MaxId
MaxId == 2
\* the longest sector pattern that repeats under the head
MaxPeriod == 2

\* the cylinders of the drive: disk.num_phys_cyls
NumCyls == 3
\* the tracks the image file has room for
MaxImage == 5

Ids == 0..MaxId
Cyls == 0..(NumCyls - 1)
Heads == 0..(NUM_HEADS - 1)

\* The slots of track->sectors[] a probe can write: the mode detection's
\* successful read and the SAMPLE_READS reads after it.  The slots above are
\* never written and stay EMPTY_SECTOR.
NumSlots == 1 + SAMPLE_READS
Slots == 0..(NumSlots - 1)

\* A null pointer, and a pointer that was never assigned (whatever the memory held).
NULL == <<>>
GARBAGE == <<-1>>

\* What the medium holds in the sector with logical id `id' of physical
\* track (c, h): the payload a successful transfer of that sector delivers.
MediumData(c, h, id) == <<c, h, id>>

sector_bytes(code) == 128 * (2 ^ code)

\* DATA_MODES[0..6]: { imd_mode, name, rate, is_fm }; entry 8 of the table is the
\* sentinel with name = NULL.
DATA_MODES ==
  << [imd_mode |-> 5, name |-> "MFM-250k",  rate |-> 2, is_fm |-> FALSE],
     [imd_mode |-> 2, name |-> "FM-250k",   rate |-> 2, is_fm |-> TRUE],
     [imd_mode |-> 4, name |-> "MFM-300k",  rate |-> 1, is_fm |-> FALSE],
     [imd_mode |-> 1, name |-> "FM-300k",   rate |-> 1, is_fm |-> TRUE],
     [imd_mode |-> 3, name |-> "MFM-500k",  rate |-> 0, is_fm |-> FALSE],
     [imd_mode |-> 0, name |-> "FM-500k",   rate |-> 0, is_fm |-> TRUE],
     [imd_mode |-> 6, name |-> "MFM-1000k", rate |-> 3, is_fm |-> FALSE] >>

(***************************************************************************)
(* disk.c: sectors, tracks, disks.                                         *)
(***************************************************************************)
EMPTY_SECTOR ==
  [status |-> "MISSING", log_cyl |-> UNSET, log_head |-> UNSET,
   log_sector |-> UNSET, phys_sector |-> UNSET, deleted |-> FALSE,
   data |-> NULL]

init_sector == EMPTY_SECTOR

free_sector(sector) == [sector EXCEPT !.status = "MISSING", !.data = NULL]

\* data_mode is an index into DATA_MODES, 0 for NULL.  `probed' has no
\* initializer in EMPTY_TRACK: a static object's missing members are zero.
EMPTY_TRACK ==
  [status |-> "UNKNOWN", data_mode |-> 0, phys_cyl |-> -1, phys_head |-> -1,
   num_sectors |-> -1, sector_size_code |-> -1, probed |-> FALSE]

init_track(phys_cyl, phys_head) ==
  [status |-> EMPTY_TRACK.status, data_mode |-> EMPTY_TRACK.data_mode,
   phys_cyl |-> phys_cyl, phys_head |-> phys_head,
   num_sectors |-> EMPTY_TRACK.num_sectors,
   sector_size_code |-> EMPTY_TRACK.sector_size_code,
   probed |-> EMPTY_TRACK.probed,
   sectors |-> [i \in Slots |-> init_sector]]

free_track(track) ==
  [track EXCEPT !.status = "UNKNOWN", !.num_sectors = 0,
                !.sectors = [i \in Slots |-> free_sector(track.sectors[i])]]

\* cyl_step has no initializer in EMPTY_DISK either.
EMPTY_DISK == [num_phys_cyls |-> 0, num_phys_heads |-> 0, cyl_step |-> 0]

init_disk ==
  [num_phys_cyls |-> EMPTY_DISK.num_phys_cyls,
   num_phys_heads |-> EMPTY_DISK.num_phys_heads,
   cyl_step |-> EMPTY_DISK.cyl_step,
   tracks |-> [c \in Cyls |-> [h \in Heads |-> init_track(c, h)]]]

free_disk(d) ==
  [d EXCEPT !.tracks = [c \in Cyls |-> [h \in Heads |-> free_track(d.tracks[c][h])]]]

(***************************************************************************)
(* track_scan_sectors: lowest and highest are slot indices, -1 for NULL.   *)
(***************************************************************************)
RECURSIVE scan_loop(_, _, _)
scan_loop(track, i, acc) ==
  IF i >= track.num_sectors THEN acc
  ELSE LET id == track.sectors[i].log_sector
           a1 == [acc EXCEPT !.seen = @ \cup {id}]
           a2 == IF id < a1.lowest_id
                 THEN [a1 EXCEPT !.lowest_id = id, !.lowest = i] ELSE a1
           a3 == IF id > a2.highest_id
                 THEN [a2 EXCEPT !.highest_id = id, !.highest = i] ELSE a2
       IN scan_loop(track, i + 1, a3)

\* The result with the ids taken as contiguous unseen.
scan_result_unseen(r) ==
  [lowest |-> r.lowest, highest |-> r.highest,
   lowest_id |-> r.lowest_id, highest_id |-> r.highest_id,
   contiguous |-> TRUE]

scan_result(r) ==
  [lowest |-> r.lowest, highest |-> r.highest,
   lowest_id |-> r.lowest_id, highest_id |-> r.highest_id,
   contiguous |-> \A i \in r.lowest_id..(r.highest_id - 1) : i \in r.seen]

track_scan_sectors(track) ==
  scan_result(scan_loop(track, 0,
                [seen |-> {}, lowest |-> -1, lowest_id |-> MAX_SECS,
                 highest |-> -1, highest_id |-> 0]))

same_sector_addr(a, b) ==
  /\ a.log_cyl = b.log_cyl
  /\ a.log_head = b.log_head
  /\ a.log_sector = b.log_sector

(***************************************************************************)
(* The controller's reply to one FD_READID: ok is "ST0 interrupt code is   *)
(* 00", and cyl, head, sec, size are reply[3..6].                          *)
(***************************************************************************)
IdReply(c, h, s, z) == [ok |-> TRUE, cyl |-> c, head |-> h, sec |-> s, size |-> z]
IdFail == [ok |-> FALSE, cyl |-> 0, head |-> 0, sec |-> 0, size |-> 0]

\* track_readid taking each header's size code as it comes.
track_readid_any_size(track, reply) ==
  IF track.num_sectors >= MAX_SECS THEN [ret |-> "die", track |-> track]
  ELSE IF ~reply.ok THEN [ret |-> "false", track |-> track]
  ELSE [ret |-> "true",
        track |-> [track EXCEPT
                     !.sectors[track.num_sectors].log_cyl = reply.cyl,
                     !.sectors[track.num_sectors].log_head = reply.head,
                     !.sectors[track.num_sectors].log_sector = reply.sec,
                     !.sector_size_code = reply.size,
                     !.num_sectors = track.num_sectors + 1]]

\* track_readid: ret is "true", "false" or "die".
track_readid(track, reply) ==
  IF track.num_sectors >= MAX_SECS THEN [ret |-> "die", track |-> track]
  ELSE IF ~reply.ok THEN [ret |-> "false", track |-> track]
  ELSE LET n == track.num_sectors
           t1 == [track EXCEPT !.sectors[n].log_cyl = reply.cyl,
                               !.sectors[n].log_head = reply.head,
                               !.sectors[n].log_sector = reply.sec]
       IN IF track.sector_size_code # -1 /\ track.sector_size_code # reply.size
          THEN [ret |-> "die", track |-> t1]
          ELSE [ret |-> "true",
                track |-> [t1 EXCEPT !.sector_size_code = reply.size,
                                     !.num_sectors = n + 1]]

(***************************************************************************)
(* probe_track.  `replies' are the controller's replies to the ID reads    *)
(* the probe issues, in the order it issues them.  `ub' settles what the   *)
(* C standard leaves open: ub.before is what a read of sectors[-1] finds   *)
(* in the memory in front of the array, ub.crash whether a read through a  *)
(* null pointer ends the process.                                          *)
(* ret is "true", "false", "die" (die() was called) or "crash".            *)
(***************************************************************************)
\* The loop with track->data_mode assigned after the ID read.
RECURSIVE detect_mode_late(_, _, _)
detect_mode_late(track, replies, i) ==
  IF i = NUM_MODES THEN [ret |-> "false", track |-> track, reads |-> i]
  ELSE LET r == track_readid(track, replies[i + 1])
       IN IF r.ret = "false"
          THEN detect_mode_late([track EXCEPT !.data_mode = i + 1], replies, i + 1)
          ELSE [ret |-> r.ret, track |-> r.track, reads |-> i + 1]

\* The loop that tries DATA_MODES[i] in turn, one ID read each.
RECURSIVE detect_mode(_, _, _)
detect_mode(track, replies, i) ==
  IF i = NUM_MODES THEN [ret |-> "false", track |-> track, reads |-> i]
  ELSE LET t1 == [track EXCEPT !.data_mode = i + 1]
           r == track_readid(t1, replies[i + 1])
       IN IF r.ret = "false" THEN detect_mode(t1, replies, i + 1)
          ELSE [ret |-> r.ret, track |-> r.track, reads |-> i + 1]

\* for (i = 0; i < 30; i++) track_readid: k replies are used up already.
RECURSIVE sample_ids(_, _, _, _)
sample_ids(track, replies, k, i) ==
  IF i >= SAMPLE_READS THEN [ret |-> "true", track |-> track, reads |-> k]
  ELSE LET r == track_readid(track, replies[k + 1])
       IN IF r.ret = "true" THEN sample_ids(r.track, replies, k + 1, i + 1)
          ELSE [ret |-> r.ret, track |-> r.track, reads |-> k + 1]

\* "Find the lowest-numbered sector": the last position of the lowest id.
RECURSIVE find_lowest(_, _, _)
find_lowest(track, i, acc) ==
  IF i >= track.num_sectors THEN acc
  ELSE LET sec == track.sectors[i].log_sector
       IN IF sec <= acc.end_sec
          THEN find_lowest(track, i + 1, [end_sec |-> sec, end_pos |-> i])
          ELSE find_lowest(track, i + 1, acc)

\* track->sectors[pos] as the machine reads it.
sector_at(track, pos, before) ==
  IF pos >= 0 THEN track.sectors[pos] ELSE before

\* "Scan backwards until we find it again": low is the lowest index read.
RECURSIVE scan_back(_, _, _, _)
scan_back(track, start_pos, end_sec, before) ==
  IF sector_at(track, start_pos, before).log_sector = end_sec
  THEN [found |-> TRUE, start_pos |-> start_pos, low |-> start_pos]
  ELSE IF start_pos - 1 < 0
       THEN [found |-> FALSE, start_pos |-> start_pos - 1, low |-> start_pos]
       ELSE scan_back(track, start_pos - 1, end_sec, before)

\* reduce_range copying from the sector after start_pos.
reduce_range_after(track, start_pos, end_pos, before) ==
  LET n == end_pos - start_pos
  IN [track EXCEPT
        !.num_sectors = n,
        !.sectors = [i \in Slots |->
                       IF i < n THEN sector_at(track, start_pos + 1 + i, before)
                       ELSE track.sectors[i]]]

\* "Reduce the sector list to just the range we've chosen" (memmove).
reduce_range(track, start_pos, end_pos, before) ==
  LET n == end_pos - start_pos
  IN [track EXCEPT
        !.num_sectors = n,
        !.sectors = [i \in Slots |->
                       IF i < n THEN sector_at(track, start_pos + i, before)
                       ELSE track.sectors[i]]]

ProbeResult(ret, track, reads) ==
  [ret |-> ret, track |-> track, reads |-> reads,
   end_pos |-> -1, start_pos |-> -1, low |-> NumSlots, null_deref |-> FALSE]

\* "Scan the track": the printf reads through lowest_sector and
\* highest_sector when the ids are contiguous.
probe_scanned(s, e, b, t1, sc, ub) ==
  LET nd == sc.contiguous /\ (sc.lowest = -1 \/ sc.highest = -1)
      res == [ProbeResult("true", [t1 EXCEPT !.probed = TRUE], s.reads)
                EXCEPT !.end_pos = e.end_pos, !.start_pos = b.start_pos,
                       !.low = b.low, !.null_deref = nd]
  IN IF nd /\ ub.crash THEN [res EXCEPT !.ret = "crash", !.track = t1]
     ELSE res

probe_reduced(s, e, b, t1, ub) ==
  probe_scanned(s, e, b, t1, track_scan_sectors(t1), ub)

\* if (start_pos < 0) "Couldn't find sector %d again", else reduce and scan.
probe_bounded(s, e, b, ub) ==
  IF ~b.found
  THEN [ProbeResult("false", s.track, s.reads) EXCEPT
          !.end_pos = e.end_pos, !.start_pos = b.start_pos, !.low = b.low]
  ELSE probe_reduced(s, e, b,
         reduce_range(s.track, b.start_pos, e.end_pos, ub.before), ub)

probe_lowest(s, e, ub) ==
  probe_bounded(s, e, scan_back(s.track, e.end_pos - 1, e.end_sec, ub.before), ub)

\* After the sample: s is what the sampling loop returned.
probe_sampled(s, ub) ==
  IF s.ret # "true" THEN ProbeResult(s.ret, s.track, s.reads)
  ELSE probe_lowest(s, find_lowest(s.track, 0,
                         [end_sec |-> MAX_SECS, end_pos |-> -1]), ub)

\* After the data mode loop: m is what it returned.
probe_mode(m, replies, ub) ==
  IF m.ret # "true" THEN ProbeResult(m.ret, m.track, m.reads)
  ELSE probe_sampled(sample_ids(m.track, replies, m.reads, 0), ub)

probe_track(track, replies, ub) ==
  probe_mode(detect_mode([free_track(track) EXCEPT !.num_sectors = 0,
                                                   !.sector_size_code = -1],
                         replies, 0),
             replies, ub)

(***************************************************************************)
(* read_track.  `ctl' is what the controller answers to the data reads:    *)
(* ctl.whole, whether the whole-track transfer succeeds, and ctl.ok, the   *)
(* slots whose single-sector transfer succeeds.  fd_read "reads data from  *)
(* sectors with consecutive logical sector IDs", starting at the sector    *)
(* given, until the buffer is full.                                        *)
(***************************************************************************)
\* The buffer a successful data read addressed at logical sector `first' fills,
\* `count' sectors long: chunk k holds sector first + k.
fd_read_data(track, first, count) ==
  [k \in 0..(count - 1) |-> MediumData(track.phys_cyl, track.phys_head, first + k)]

\* The slice one sector further on.
slice_next(track_data, rel_sec) ==
  IF rel_sec + 1 \in DOMAIN track_data THEN track_data[rel_sec + 1] ELSE GARBAGE

\* track_data + sector_size * rel_sec, sector_size bytes long.
slice(track_data, rel_sec) ==
  IF rel_sec \in DOMAIN track_data THEN track_data[rel_sec] ELSE GARBAGE

\* One pass of the loop without the test "Already got this one".
read_sector_again(track, i, read_whole_track, track_data, lowest_id, ctl, acc) ==
  LET sector == acc.track.sectors[i]
      req == [kind |-> "single", slot |-> i, first |-> sector.log_sector,
              count |-> 1]
  IN IF read_whole_track
     THEN [acc EXCEPT !.track.sectors[i].data =
                         slice(track_data, sector.log_sector - lowest_id)]
     ELSE IF i \in ctl.ok
     THEN [acc EXCEPT !.track.sectors[i].data =
                         MediumData(track.phys_cyl, track.phys_head,
                                    sector.log_sector),
                      !.requests = Append(@, req)]
     ELSE [acc EXCEPT !.track.sectors[i].data = NULL, !.all_ok = FALSE,
                      !.requests = Append(@, req)]

\* One pass of "Get sectors in physical order"; acc holds the track, all_ok
\* and the single-sector requests issued so far.
read_sector(track, i, read_whole_track, track_data, lowest_id, ctl, acc) ==
  LET sector == acc.track.sectors[i]
  IN IF sector.data # NULL THEN acc
     ELSE IF read_whole_track
     THEN [acc EXCEPT !.track.sectors[i].data =
                         slice(track_data, sector.log_sector - lowest_id)]
     ELSE IF i \in ctl.ok
     THEN [acc EXCEPT !.track.sectors[i].data =
                         fd_read_data(track, sector.log_sector, 1)[0],
                      !.requests = Append(@, [kind |-> "single", slot |-> i,
                                              first |-> sector.log_sector,
                                              count |-> 1])]
     ELSE [acc EXCEPT !.track.sectors[i].data = NULL,
                      !.all_ok = FALSE,
                      !.requests = Append(@, [kind |-> "single", slot |-> i,
                                              first |-> sector.log_sector,
                                              count |-> 1])]

RECURSIVE read_sectors(_, _, _, _, _, _, _)
read_sectors(track, i, read_whole_track, track_data, lowest_id, ctl, acc) ==
  IF i >= track.num_sectors THEN acc
  ELSE read_sectors(track, i + 1, read_whole_track, track_data, lowest_id, ctl,
         read_sector(track, i, read_whole_track, track_data, lowest_id, ctl, acc))

ReadResult(ret, track, probe, probed_here) ==
  [ret |-> ret, track |-> track, probe |-> probe, probed_here |-> probed_here,
   entry |-> track, reading |-> FALSE, contiguous |-> FALSE,
   read_whole_track |-> FALSE, requests |-> <<>>, null_deref |-> FALSE]

\* The end of read_track returning true whatever all_ok holds.
read_done_true(base, acc, whole_req, ub) ==
  IF base.null_deref /\ ub.crash
  THEN [base EXCEPT !.ret = "crash", !.requests = whole_req]
  ELSE [base EXCEPT !.ret = "true",
                    !.track = acc.track, !.requests = acc.requests]

\* The end of read_track: acc is what the loop over the sectors left.
read_done(base, acc, whole_req, ub) ==
  IF base.null_deref /\ ub.crash
  THEN [base EXCEPT !.ret = "crash", !.requests = whole_req]
  ELSE [base EXCEPT !.ret = IF acc.all_ok THEN "true" ELSE "false",
                    !.track = acc.track, !.requests = acc.requests]

\* read_track after track_scan_sectors: the whole-track read, then the loop.
read_scanned(track, sc, ub, ctl, probe, probed_here) ==
  LET whole_req == IF sc.contiguous
                   THEN << [kind |-> "whole", slot |-> sc.lowest,
                            first |-> sc.lowest_id,
                            count |-> track.num_sectors] >>
                   ELSE <<>>
      read_whole_track == sc.contiguous /\ ctl.whole
      \* fd_read reads through lowest_sector, the printf through both
      nd == \/ sc.contiguous /\ sc.lowest = -1
            \/ sc.contiguous /\ ctl.whole /\ sc.highest = -1
      track_data == IF sc.contiguous /\ ctl.whole
                    THEN fd_read_data(track, sc.lowest_id, track.num_sectors)
                    ELSE [k \in {} |-> NULL]
  IN read_done([ReadResult("true", track, probe, probed_here) EXCEPT
                  !.reading = TRUE, !.contiguous = sc.contiguous,
                  !.read_whole_track = read_whole_track,
                  !.null_deref = nd],
               read_sectors(track, 0, read_whole_track, track_data,
                            sc.lowest_id, ctl,
                            [track |-> track, all_ok |-> TRUE,
                             requests |-> whole_req]),
               whole_req, ub)

\* The part of read_track from "Reading %02d.%d:" on.
read_probed(track, ub, ctl, probe, probed_here) ==
  read_scanned(track, track_scan_sectors(track), ub, ctl, probe, probed_here)

NoProbe == ProbeResult("none", init_track(-1, -1), 0)

\* read_track going on to the data reads whatever probe_track returned.
read_after_probe_anyway(p, ub, ctl) ==
  IF p.ret \notin {"true", "false"} THEN ReadResult(p.ret, p.track, p, TRUE)
  ELSE read_probed(p.track, ub, ctl, p, TRUE)

\* if (!track->probed) { if (!probe_track(track)) return false; }
read_after_probe(p, ub, ctl) ==
  IF p.ret # "true" THEN ReadResult(p.ret, p.track, p, TRUE)
  ELSE read_probed(p.track, ub, ctl, p, TRUE)

read_track(track, replies, ub, ctl) ==
  IF ~track.probed
  THEN read_after_probe(probe_track(track, replies, ub), ub, ctl)
  ELSE read_probed(track, ub, ctl, NoProbe, FALSE)

(***************************************************************************)
(* probe_disk.  replies0 and replies1 are the controller's replies to the  *)
(* ID reads of the probes of head 0 and head 1 of cylinder REF_CYL.        *)
(* ret is "returned", "die" or "crash"; sided is the message printed.      *)
(***************************************************************************)
DiskResult(ret, d, sided) == [ret |-> ret, disk |-> d, sided |-> sided]

\* The last if-chain without its first branch.
infer_cyl_step_never(r) ==
  LET side0 == r.disk.tracks[REF_CYL][0]
      sec0 == side0.sectors[0]
  IN IF r.ret = "returned" /\ sec0.log_cyl = side0.phys_cyl * 2
     THEN [r EXCEPT !.ret = "die"]
     ELSE r

\* The last if-chain: the cylinder step.
infer_cyl_step(r) ==
  LET side0 == r.disk.tracks[REF_CYL][0]
      sec0 == side0.sectors[0]
  IN IF r.ret # "returned" THEN r
     ELSE IF sec0.log_cyl * 2 = side0.phys_cyl
     THEN [r EXCEPT !.disk.cyl_step = 2]
     ELSE IF sec0.log_cyl = side0.phys_cyl * 2
     THEN [r EXCEPT !.ret = "die"]
     ELSE r

\* The first if-chain with the head count left alone.
infer_sides_keep(d) ==
  LET side0 == d.tracks[REF_CYL][0]
      side1 == d.tracks[REF_CYL][1]
  IN IF ~(side0.probed \/ side1.probed) THEN DiskResult("die", d, "none")
     ELSE IF side0.probed /\ ~side1.probed
     THEN DiskResult("returned", d, "single")
     ELSE IF side0.sectors[0].log_head = 0 /\ side1.sectors[0].log_head = 0
     THEN DiskResult("returned", d, "separate")
     ELSE DiskResult("returned", d, "double")

\* The first if-chain: the sides.
infer_sides(d) ==
  LET side0 == d.tracks[REF_CYL][0]
      sec0 == side0.sectors[0]
      side1 == d.tracks[REF_CYL][1]
      sec1 == side1.sectors[0]
  IN IF ~(side0.probed \/ side1.probed) THEN DiskResult("die", d, "none")
     ELSE IF side0.probed /\ ~side1.probed
     THEN DiskResult("returned", [d EXCEPT !.num_phys_heads = 1], "single")
     ELSE IF sec0.log_head = 0 /\ sec1.log_head = 0
     THEN DiskResult("returned", d, "separate")
     ELSE DiskResult("returned", d, "double")

\* After the probe of one head: p is what probe_track returned.
probe_disk_head(d, h, p) ==
  DiskResult(IF p.ret \in {"die", "crash"} THEN p.ret ELSE "returned",
             [d EXCEPT !.tracks[REF_CYL][h] = p.track], "none")

\* for (head = 0; head < disk->num_phys_heads; head++) probe_track(...)
probe_disk_heads(r0, replies1, ub) ==
  IF r0.ret # "returned" \/ r0.disk.num_phys_heads < 2 THEN r0
  ELSE probe_disk_head(r0.disk, 1,
         probe_track(r0.disk.tracks[REF_CYL][1], replies1, ub))

probe_disk_inferred(r) ==
  IF r.ret # "returned" THEN r ELSE infer_cyl_step(infer_sides(r.disk))

probe_disk(d, replies0, replies1, ub) ==
  probe_disk_inferred(
    probe_disk_heads(
      probe_disk_head(d, 0, probe_track(d.tracks[REF_CYL][0], replies0, ub)),
      replies1, ub))

(***************************************************************************)
(* copy_track_layout (disk.c).                                             *)
(***************************************************************************)
copy_track_layout(src, dest) ==
  IF src.status = "UNKNOWN" THEN dest
  ELSE LET d0 == free_track(dest)
           cyl_diff == dest.phys_cyl - src.phys_cyl
       IN [d0 EXCEPT
             !.status = "GUESSED",
             !.data_mode = src.data_mode,
             !.num_sectors = src.num_sectors,
             !.sector_size_code = src.sector_size_code,
             !.sectors = [i \in Slots |->
                IF i < src.num_sectors
                THEN [d0.sectors[i] EXCEPT
                        !.log_cyl = (src.sectors[i].log_cyl + cyl_diff) % 256,
                        !.log_head = src.sectors[i].log_head,
                        !.log_sector = src.sectors[i].log_sector,
                        !.phys_sector = src.sectors[i].phys_sector]
                ELSE d0.sectors[i]]]

(***************************************************************************)
(* write_imd_track.  The image is the sequence of the fwrite and fputc     *)
(* calls' outputs: each a chunk of len bytes, `part' naming the call.      *)
(***************************************************************************)
RECURSIVE bit_or(_, _)
bit_or(a, b) ==
  IF a = 0 THEN b
  ELSE IF b = 0 THEN a
  ELSE (IF a % 2 = 1 \/ b % 2 = 1 THEN 1 ELSE 0) + 2 * bit_or(a \div 2, b \div 2)

bit_and(a, b) == a + b - bit_or(a, b)

uint8(x) == x % 256

Chunk(part, len, bytes) == [part |-> part, len |-> len, bytes |-> bytes]

\* The first loop with both flags set at any mismatch.
RECURSIVE imd_flags_both(_, _, _)
imd_flags_both(track, i, flags) ==
  IF i >= track.num_sectors THEN flags
  ELSE LET sector == track.sectors[i]
       IN imd_flags_both(track, i + 1,
            IF \/ uint8(sector.log_cyl) # track.phys_cyl
               \/ uint8(sector.log_head) # track.phys_head
            THEN bit_or(flags, IMD_NEED_CYL_MAP + IMD_NEED_HEAD_MAP)
            ELSE flags)

\* The first loop: the three maps and the flags.
RECURSIVE imd_flags(_, _, _)
imd_flags(track, i, flags) ==
  IF i >= track.num_sectors THEN flags
  ELSE LET sector == track.sectors[i]
           f1 == IF uint8(sector.log_cyl) # track.phys_cyl
                 THEN bit_or(flags, IMD_NEED_CYL_MAP) ELSE flags
           f2 == IF uint8(sector.log_head) # track.phys_head
                 THEN bit_or(f1, IMD_NEED_HEAD_MAP) ELSE f1
       IN imd_flags(track, i + 1, f2)

imd_map(track, field) ==
  [i \in 1..track.num_sectors |-> uint8(track.sectors[i - 1][field])]

\* The last loop writing nothing for a sector without data.
RECURSIVE imd_records_present(_, _, _)
imd_records_present(track, i, out) ==
  IF i >= track.num_sectors THEN out
  ELSE LET sector == track.sectors[i]
       IN IF sector.data = NULL
          THEN imd_records_present(track, i + 1, out)
          ELSE imd_records_present(track, i + 1,
                 out \o << Chunk("sdr", 1, <<IMD_SDR_NORMAL>>),
                           Chunk("data", sector_bytes(track.sector_size_code),
                                 sector.data) >>)

\* The last loop: one record per sector.
RECURSIVE imd_records(_, _, _)
imd_records(track, i, out) ==
  IF i >= track.num_sectors THEN out
  ELSE LET sector == track.sectors[i]
       IN IF sector.data = NULL
          THEN imd_records(track, i + 1,
                 Append(out, Chunk("sdr", 1, <<IMD_SDR_UNAVAILABLE>>)))
          ELSE imd_records(track, i + 1,
                 out \o << Chunk("sdr", 1, <<IMD_SDR_NORMAL>>),
                           Chunk("data", sector_bytes(track.sector_size_code),
                                 sector.data) >>)

\* data_mode must not be NULL here: the callers write probed tracks only.
write_imd_track(track) ==
  LET flags == imd_flags(track, 0, 0)
      n == track.num_sectors
      header == << DATA_MODES[track.data_mode].imd_mode,
                   uint8(track.phys_cyl),
                   uint8(bit_or(flags, track.phys_head)),
                   uint8(track.num_sectors),
                   uint8(track.sector_size_code) >>
  IN << Chunk("header", 5, header),
        Chunk("sec_map", n, imd_map(track, "log_sector")) >>
     \o (IF bit_and(flags, IMD_NEED_CYL_MAP) # 0
         THEN << Chunk("cyl_map", n, imd_map(track, "log_cyl")) >> ELSE <<>>)
     \o (IF bit_and(flags, IMD_NEED_HEAD_MAP) # 0
         THEN << Chunk("head_map", n, imd_map(track, "log_head")) >> ELSE <<>>)
     \o imd_records(track, 0, <<>>)

(***************************************************************************)
(* State.                                                                  *)
(*   medium what the drive holds: it answers the controller's requests     *)
(*   trk    the track a single function is applied to                      *)
(*   last   the last function applied and what it returned                 *)
(* and of process_floppy:                                                  *)
(*   args   args.always_probe and whether args.image_filename is given     *)
(*   disk   the disk_t                                                     *)
(*   pc     where process_floppy stands                                    *)
(*   cyl, head, try   the loop variables                                   *)
(*   image  the tracks written to the image file                           *)
(***************************************************************************)
VARIABLES medium, trk, last, args, disk, pc, cyl, head, try, image

procvars == <<args, disk, pc, cyl, head, try, image>>

vars == <<medium, trk, last, args, disk, pc, cyl, head, try, image>>

(***************************************************************************)
(* What the controller can answer.                                         *)
(***************************************************************************)
\* What the C standard leaves open, as far as the program can notice it.
UBChoices ==
  { [before |-> [EMPTY_SECTOR EXCEPT !.log_sector = v, !.data = d], crash |-> c] :
      v \in Ids \cup {UNSET}, d \in {NULL, GARBAGE}, c \in BOOLEAN }

NoUB == [before |-> EMPTY_SECTOR, crash |-> TRUE]

\* The same where no read leaves the array.
CrashChoices == { ub \in UBChoices : ub.before = EMPTY_SECTOR }

\* The sector headers that pass the head are a pattern that repeats: the
\* sector ids `layout', with the cylinder and head each header names.
Format(layout, cyls, heads) == [layout |-> layout, cyls |-> cyls, heads |-> heads]

Layouts == UNION { [1..p -> Ids] : p \in 1..MaxPeriod }

\* A format whose headers all name cylinder lc and head lh.
Plain(layout, lc, lh) ==
  Format(layout, [i \in 1..Len(layout) |-> lc], [i \in 1..Len(layout) |-> lh])

\* The least shift that maps the repeating pattern onto itself.
TruePeriod(layout) ==
  LET p == Len(layout)
      fits(d) == \A i \in 1..p : layout[i] = layout[((i - 1 + d) % p) + 1]
  IN CHOOSE d \in 1..p : fits(d) /\ \A e \in 1..(d - 1) : ~fits(e)

\* A run of ID reads: `nfail' data modes find nothing, then the headers of
\* `fmt' pass; at read `pos' of these (1-based) something else happens:
\*   "clean"   nothing
\*   "glitch"  the id read is `val' instead
\*   "fail"    the read fails
\*   "size"    the header holds another size code
ProbeInput(kind, fmt, nfail, pos, val) ==
  [kind |-> kind, fmt |-> fmt, nfail |-> nfail, pos |-> pos, val |-> val]

\* The ids of the sample an input shows to the probe: what NumSlots
\* successive ID reads see of the pattern.
SampleIds(inp) ==
  [i \in 1..NumSlots |->
     IF inp.kind = "glitch" /\ i = inp.pos THEN inp.val
     ELSE inp.fmt.layout[((i - 1) % Len(inp.fmt.layout)) + 1]]

\* The replies to the ID reads.
Replies(inp) ==
  [i \in 1..(inp.nfail + NumSlots) |->
     IF i <= inp.nfail THEN IdFail
     ELSE LET k == i - inp.nfail
              e == ((k - 1) % Len(inp.fmt.layout)) + 1
          IN IF inp.kind = "fail" /\ k = inp.pos THEN IdFail
             ELSE IdReply(inp.fmt.cyls[e], inp.fmt.heads[e], SampleIds(inp)[k],
                          IF inp.kind = "size" /\ k = inp.pos THEN 1 ELSE 2)]

\* Whether an evaluation under NoUB met something the C standard leaves open.
MetUB(r) == r.null_deref \/ (r.ret # "none" /\ r.low < 0)
ReadMetUB(r) == r.null_deref \/ MetUB(r.probe)

\* What `last' keeps of a result: all but the track, which is the state.
ProbeInfo(r) ==
  [ret |-> r.ret, reads |-> r.reads, end_pos |-> r.end_pos,
   start_pos |-> r.start_pos, low |-> r.low, null_deref |-> r.null_deref]

\* held: the buffers the sectors owned when the data reads began.
ReadInfo(r) ==
  [ret |-> r.ret, probed_here |-> r.probed_here, reading |-> r.reading,
   contiguous |-> r.contiguous, read_whole_track |-> r.read_whole_track,
   requests |-> r.requests, null_deref |-> r.null_deref,
   held |-> [i \in Slots |-> r.entry.sectors[i].data]]

NoLast ==
  [op |-> "none",
   geom |-> [ret |-> "none", sided |-> "none"],
   pos |-> <<-1, -1>>,
   probe |-> ProbeInfo(NoProbe),
   read |-> ReadInfo(ReadResult("none", init_track(-1, -1), NoProbe, FALSE)),
   out |-> <<>>]

\* process_floppy not running.
NoProcess ==
  /\ args = [always_probe |-> FALSE, image |-> FALSE]
  /\ disk = init_disk
  /\ pc = "none"
  /\ cyl = 0
  /\ head = 0
  /\ try = 0
  /\ image = <<>>

\* die() or a crash ended the process.
Dead == last.probe.ret \in {"die", "crash"} \/ last.read.ret \in {"die", "crash"}

(***************************************************************************)
(* SpecProbe: probe_track as a function of the sample.  A fresh track, a   *)
(* sample drawn at the start, one probe.                                   *)
(***************************************************************************)
ProbeInputs ==
  LET F == { Plain(l, REF_CYL, 0) : l \in Layouts }
  IN { ProbeInput("clean", f, n, 0, 0) : f \in F, n \in 0..NUM_MODES }
     \cup { ProbeInput("glitch", f, 0, g, v) : f \in F, g \in 1..NumSlots, v \in Ids }
     \cup { ProbeInput(k, f, 0, g, 0) : k \in {"fail", "size"}, f \in F,
                                         g \in 2..NumSlots }

InitProbe ==
  /\ medium \in ProbeInputs
  /\ trk = init_track(REF_CYL, 0)
  /\ last = NoLast
  /\ NoProcess

ProbeOnce ==
  /\ last.op = "none"
  /\ \E replies \in {Replies(medium)} :
     \E r0 \in {probe_track(trk, replies, NoUB)} :
     \E ub \in (IF MetUB(r0) THEN UBChoices ELSE {NoUB}) :
     \E r \in {IF ub = NoUB THEN r0 ELSE probe_track(trk, replies, ub)} :
       /\ trk' = r.track
       /\ last' = [last EXCEPT !.op = "probe_track", !.probe = ProbeInfo(r)]
  /\ UNCHANGED <<medium, procvars>>

NextProbe == ProbeOnce

SpecProbe == InitProbe /\ [][NextProbe]_vars

(***************************************************************************)
(* SpecTrack: the functions that work on one track, applied as the caller  *)
(* may apply them to the track of one physical position.  The medium is    *)
(* fixed; an ID read or a data read may fail at any time.                  *)
(***************************************************************************)
\* Headers that match the physical position, or name another cylinder or
\* head, in the first sector of the pattern or in all of them.
TrackFormats ==
  LET one(p, a, b) == [i \in 1..p |-> IF i = 1 THEN b ELSE a]
      all(p, a) == [i \in 1..p |-> a]
      c == REF_CYL
  IN UNION { { Format(l, all(Len(l), c), all(Len(l), 0)),
               Format(l, one(Len(l), c, c - 1), all(Len(l), 0)),
               Format(l, all(Len(l), c - 1), all(Len(l), 0)),
               Format(l, all(Len(l), c), one(Len(l), 0, 1)),
               Format(l, all(Len(l), c), all(Len(l), 1)),
               Format(l, all(Len(l), c - 1), all(Len(l), 1)) } : l \in Layouts }

\* How a probe of a formatted track can go: all ID reads succeed, or the
\* second one fails.
TrackProbes(fmt) ==
  { ProbeInput("clean", fmt, 0, 0, 0), ProbeInput("fail", fmt, 0, 2, 0) }

\* The whole-track transfer succeeds, or it fails and the single-sector
\* transfers of the slots in ok succeed.
Ctls ==
  { [whole |-> TRUE, ok |-> {}] }
  \cup [whole : {FALSE}, ok : SUBSET (0..(MaxPeriod - 1))]

\* The answers that make a difference to read_track(track) when the ID
\* reads go as inp: none is used by a track that is probed already, and no
\* data read follows a probe that fails.
Answers(track, probes) ==
  LET first == CHOOSE inp \in probes : TRUE
      fails(inp) == inp.kind = "fail" \/ inp.nfail = NUM_MODES
  IN IF track.probed THEN { <<first, ctl>> : ctl \in Ctls }
     ELSE { <<inp, ctl>> : inp \in {i \in probes : ~fails(i)}, ctl \in Ctls }
          \cup { <<inp, CHOOSE ctl \in Ctls : TRUE>> :
                   inp \in {i \in probes : fails(i)} }

InitTrack ==
  /\ medium \in TrackFormats
  /\ trk = init_track(REF_CYL, 0)
  /\ last = NoLast
  /\ NoProcess

\* read_track(track)
TRead ==
  /\ ~Dead
  /\ last.op # "free_track"
  /\ \E a \in Answers(trk, TrackProbes(medium)) :
       \E replies \in {Replies(a[1])} :
       \E r0 \in {read_track(trk, replies, NoUB, a[2])} :
       \E ub \in (IF ReadMetUB(r0) THEN CrashChoices ELSE {NoUB}) :
       \E r \in {IF ub = NoUB THEN r0 ELSE read_track(trk, replies, ub, a[2])} :
         /\ trk' = r.track
         /\ last' = [NoLast EXCEPT !.op = "read_track",
                                   !.probe = ProbeInfo(r.probe),
                                   !.read = ReadInfo(r)]
  /\ UNCHANGED <<medium, procvars>>

\* The retry that leaves the track as the failed attempt left it.
retry_track_keep(track) == track

\* track->probed = false after a read_track that returned false
retry_track(track) == [track EXCEPT !.probed = FALSE]

\* process_floppy after a read_track that returned false: track->probed = false
TRetry ==
  /\ last.op = "read_track"
  /\ last.read.ret = "false"
  /\ trk' = retry_track(trk)
  /\ last' = [NoLast EXCEPT !.op = "retry"]
  /\ UNCHANGED <<medium, procvars>>

\* write_imd_track(track, image)
TWrite ==
  /\ ~Dead
  /\ last.op = "read_track"
  /\ last.read.reading
  /\ last' = [NoLast EXCEPT !.op = "write_imd_track", !.out = write_imd_track(trk)]
  /\ UNCHANGED <<medium, trk, procvars>>

\* free_sector(&track->sectors[i])
TFreeSector ==
  /\ ~Dead
  /\ last.op \in {"read_track", "free_sector"}
  /\ \E i \in Slots :
       /\ i < trk.num_sectors
       /\ trk.sectors[i].data # NULL
       /\ trk' = [trk EXCEPT !.sectors[i] = free_sector(@)]
  /\ last' = [NoLast EXCEPT !.op = "free_sector"]
  /\ UNCHANGED <<medium, procvars>>

\* free_track(track), as free_disk calls it when the session ends
TFreeTrack ==
  /\ ~Dead
  /\ last.op \notin {"none", "free_track"}
  /\ trk' = free_track(trk)
  /\ last' = [NoLast EXCEPT !.op = "free_track"]
  /\ UNCHANGED <<medium, procvars>>

NextTrack == TRead \/ TRetry \/ TWrite \/ TFreeSector \/ TFreeTrack

SpecTrack == InitTrack /\ [][NextTrack]_vars

(***************************************************************************)
(* SpecSlice: read_track as a function of a probed track.  The track is    *)
(* what a successful probe_track leaves: the lowest id first and nowhere   *)
(* else, the other ids in any order, repeated or not.                      *)
(***************************************************************************)
MaxTrackLen == MaxPeriod + 1

ProbedIds ==
  { ids \in UNION { [1..n -> Ids] : n \in 1..MaxTrackLen } :
      \A i \in 2..Len(ids) : ids[1] < ids[i] }

ProbedTrack(c, h, ids) ==
  [init_track(c, h) EXCEPT
     !.data_mode = 1, !.num_sectors = Len(ids), !.sector_size_code = 2,
     !.probed = TRUE,
     !.sectors = [i \in Slots |->
                    IF i < Len(ids)
                    THEN [init_sector EXCEPT !.log_cyl = c, !.log_head = h,
                                             !.log_sector = ids[i + 1]]
                    ELSE init_sector]]

InitSlice ==
  /\ medium = Plain(<<0>>, 0, 0)
  /\ trk \in { ProbedTrack(c, h, ids) : c \in Cyls, h \in Heads, ids \in ProbedIds }
  /\ last = NoLast
  /\ NoProcess

\* read_track(track) on the probed track
SRead ==
  /\ last.op = "none"
  /\ \E ctl \in Ctls :
       \E r0 \in {read_track(trk, <<>>, NoUB, ctl)} :
       \E ub \in (IF ReadMetUB(r0) THEN CrashChoices ELSE {NoUB}) :
       \E r \in {IF ub = NoUB THEN r0 ELSE read_track(trk, <<>>, ub, ctl)} :
         /\ trk' = r.track
         /\ last' = [NoLast EXCEPT !.op = "read_track",
                                   !.probe = ProbeInfo(r.probe),
                                   !.read = ReadInfo(r)]
  /\ UNCHANGED <<medium, procvars>>

NextSlice == SRead

SpecSlice == InitSlice /\ [][NextSlice]_vars

(***************************************************************************)
(* Spec: process_floppy on one disk.  The medium is a disk: the sector     *)
(* pattern of its tracks, how its cylinders are numbered, and its sides.   *)
(*   cylmap  "same"    logical cylinder = physical cylinder                *)
(*           "half"    a 40-track disk in an 80-track drive                *)
(*           "double"  an 80-track disk in a 40-track drive                *)
(*           "off"     numbered from 1                                     *)
(*   sides   "two"     head h is numbered h                                *)
(*           "separate" both sides are numbered 0                          *)
(*           "single"  the second side is not formatted                    *)
(*           "back"    the first side is not formatted                     *)
(***************************************************************************)
DiskLayouts == { <<0>>, <<1, 2>>, <<1, 3>> }

Disks ==
  { [layout |-> l, cylmap |-> m, sides |-> "two"] :
      l \in DiskLayouts, m \in {"same", "half", "double", "off"} }
  \cup { [layout |-> l, cylmap |-> "same", sides |-> sd] :
           l \in DiskLayouts, sd \in {"separate", "single", "back"} }

Formatted(m, h) ==
  /\ m.sides = "single" => h = 0
  /\ m.sides = "back" => h = 1

\* The headers of physical track (c, h) of disk m.
TrackFormat(m, c, h) ==
  Plain(m.layout,
        CASE m.cylmap = "same" -> c
          [] m.cylmap = "half" -> c \div 2
          [] m.cylmap = "double" -> 2 * c
          [] m.cylmap = "off" -> c + 1,
        IF m.sides = "separate" THEN 0 ELSE h)

\* How a probe of track (c, h) can go: on a side that is not formatted no
\* data mode finds a sector.
DiskProbes(m, c, h) ==
  IF Formatted(m, h) THEN TrackProbes(TrackFormat(m, c, h))
  ELSE { ProbeInput("clean", TrackFormat(m, c, h), NUM_MODES, 0, 0) }

Init ==
  /\ medium \in Disks
  /\ trk = init_track(REF_CYL, 0)
  /\ last = NoLast
  /\ args \in [always_probe : BOOLEAN, image : BOOLEAN]
  /\ disk = [init_disk EXCEPT !.num_phys_cyls = NumCyls,
                              !.num_phys_heads = NUM_HEADS]
  /\ pc = "probe_disk"
  /\ cyl = 0
  /\ head = 0
  /\ try = 0
  /\ image = <<>>

\* probe_disk(&disk), and the first tests of the two for loops
ProbeDisk ==
  /\ pc = "probe_disk"
  /\ \E inp0 \in DiskProbes(medium, REF_CYL, 0),
        inp1 \in DiskProbes(medium, REF_CYL, 1), ub \in CrashChoices :
     \E r \in {probe_disk(disk, Replies(inp0), Replies(inp1), ub)} :
       /\ disk' = r.disk
       /\ last' = [NoLast EXCEPT !.op = "probe_disk",
                                 !.geom = [ret |-> r.ret, sided |-> r.sided]]
       /\ pc' = IF r.ret # "returned" THEN "dead"
                ELSE IF 0 < r.disk.num_phys_cyls /\ 0 < r.disk.num_phys_heads
                THEN "track" ELSE "close"
  /\ cyl' = 0
  /\ head' = 0
  /\ UNCHANGED <<medium, trk, args, try, image>>

\* The head of the loop body: copy_track_layout, try = 0
BeginTrack ==
  /\ pc = "track"
  /\ disk' = IF ~args.always_probe /\ cyl > 0
             THEN [disk EXCEPT !.tracks[cyl][head] =
                     copy_track_layout(disk.tracks[cyl - 1][head], @)]
             ELSE disk
  /\ try' = 0
  /\ pc' = "try"
  /\ last' = [NoLast EXCEPT !.op = "copy_track_layout"]
  /\ UNCHANGED <<medium, trk, args, cyl, head, image>>

\* Giving up without die(): on to the write and the next track.
GiveUpAndGoOn ==
  /\ pc = "try"
  /\ try = MAX_TRIES
  /\ pc' = "write"
  /\ last' = [NoLast EXCEPT !.op = "die"]
  /\ UNCHANGED <<medium, trk, args, disk, cyl, head, try, image>>

\* if (try == max_tries) die("Track failed to read after retrying")
GiveUp ==
  /\ pc = "try"
  /\ try = MAX_TRIES
  /\ pc' = "dead"
  /\ last' = [NoLast EXCEPT !.op = "die"]
  /\ UNCHANGED <<medium, trk, args, disk, cyl, head, try, image>>

\* One pass of the retry loop: read_track(track), and track->probed = false
\* and try++ when it returns false.
TryTrack ==
  /\ pc = "try"
  /\ try < MAX_TRIES
  /\ \E a \in Answers(disk.tracks[cyl][head], DiskProbes(medium, cyl, head)) :
     \E replies \in {Replies(a[1])} :
     \E r0 \in {read_track(disk.tracks[cyl][head], replies, NoUB, a[2])} :
     \E ub \in (IF ReadMetUB(r0) THEN CrashChoices ELSE {NoUB}) :
     \E r \in {IF ub = NoUB THEN r0
               ELSE read_track(disk.tracks[cyl][head], replies, ub, a[2])} :
       /\ disk' = [disk EXCEPT !.tracks[cyl][head] =
                     IF r.ret = "false" THEN retry_track(r.track)
                     ELSE r.track]
       /\ try' = IF r.ret = "false" THEN try + 1 ELSE try
       /\ pc' = CASE r.ret = "true" -> "write"
                  [] r.ret = "false" -> "try"
                  [] OTHER -> "dead"
       /\ last' = [NoLast EXCEPT !.op = "read_track",
                                 !.pos = <<r.track.phys_cyl, r.track.phys_head>>,
                                 !.probe = ProbeInfo(r.probe),
                                 !.read = ReadInfo(r)]
  /\ UNCHANGED <<medium, trk, args, cyl, head, image>>

\* if (image != NULL) write_imd_track(track, image), then head++ and, past
\* the last head, cyl += disk.cyl_step, and the tests of the two loops.
WriteTrack ==
  /\ pc = "write"
  /\ args.image => Len(image) < MaxImage
  /\ image' = IF args.image
              THEN Append(image, [cyl |-> cyl, head |-> head,
                                  out |-> write_imd_track(disk.tracks[cyl][head])])
              ELSE image
  /\ IF head + 1 < disk.num_phys_heads
     THEN /\ head' = head + 1
          /\ cyl' = cyl
          /\ pc' = "track"
     ELSE /\ head' = 0
          /\ cyl' = cyl + disk.cyl_step
          /\ pc' = IF cyl + disk.cyl_step < disk.num_phys_cyls
                   THEN "track" ELSE "close"
  /\ last' = [NoLast EXCEPT !.op = "write_imd_track"]
  /\ UNCHANGED <<medium, trk, args, disk, try>>

\* fclose(image); free_disk(&disk); close(dev_fd)
Close ==
  /\ pc = "close"
  /\ disk' = free_disk(disk)
  /\ pc' = "exit"
  /\ last' = [NoLast EXCEPT !.op = "free_disk"]
  /\ UNCHANGED <<medium, trk, args, cyl, head, try, image>>

Next == ProbeDisk \/ BeginTrack \/ GiveUp \/ TryTrack \/ WriteTrack \/ Close

Spec == Init /\ [][Next]_vars

PcValues == {"probe_disk", "track", "try", "write", "close", "exit", "dead"}

\* No statement is left to run: the process has ended, or the image holds
\* as many track records as are followed here.
Stopped ==
  \/ pc \in {"exit", "dead"}
  \/ pc = "write" /\ args.image /\ Len(image) = MaxImage

\* Every step of Next moves pc or counts a try, and one is possible in
\* every state that is not Stopped.
Step ==
  /\ ~Stopped
  /\ pc' \in PcValues
  /\ try' \in 0..MAX_TRIES

\* The session is one sequential process: while a statement is left to run,
\* it runs.
SpecFair == Spec /\ WF_<<pc, try>>(Step)

(***************************************************************************)
(* Rotation extraction (probe_track under SpecProbe).                      *)
(***************************************************************************)
Probed == last.op = "probe_track"

\* The sample went through: every ID read after the data mode was found
\* succeeded, with one size code.
Sampled == Probed /\ medium.kind \in {"clean", "glitch"}

TheSample == SampleIds(medium)

MinOf(ids) == CHOOSE m \in {ids[i] : i \in DOMAIN ids} :
                 \A i \in DOMAIN ids : m <= ids[i]

\* The positions (1-based) of the lowest id in the sample.
MinPositions(ids) == {i \in DOMAIN ids : ids[i] = MinOf(ids)}

MaxOf(S) == CHOOSE x \in S : \A y \in S : y <= x

\* The last occurrence of the lowest id and the nearest one before it (0 if
\* there is none).
LaterMin(ids) == MaxOf(MinPositions(ids))
EarlierMin(ids) == MaxOf({0} \cup (MinPositions(ids) \ {LaterMin(ids)}))

\* The ids the track retains, in array order.
Retained == [k \in 1..trk.num_sectors |-> trk.sectors[k - 1].log_sector]

\* C3: for a cyclic sequence of ids of true period p whose period shows at
\* least twice in the sample, with every ID read succeeding, probe_track
\* succeeds and num_sectors is p.
C3_RotationLength ==
  (/\ Probed
   /\ medium.kind = "clean"
   /\ medium.nfail = 0
   /\ 2 * TruePeriod(medium.fmt.layout) <= NumSlots)
  => (/\ last.probe.ret = "true"
      /\ trk.num_sectors = TruePeriod(medium.fmt.layout))

\* C4 as stated: on success the retained list is the sample from the position
\* immediately after the earlier bounding occurrence of the lowest id up to and
\* including the later one.
C4_StartsAfterEarlier ==
  (Sampled /\ last.probe.ret = "true")
  => Retained = [k \in 1..(LaterMin(TheSample) - EarlierMin(TheSample)) |->
                   TheSample[EarlierMin(TheSample) + k]]

\* C4 as amended: on success, with the lowest id seen at least twice, the
\* retained list is the sample from the earlier bounding occurrence of the
\* lowest id (included) up to the later one (excluded).
C4_StartsAtEarlier ==
  (/\ Sampled
   /\ last.probe.ret = "true"
   /\ Cardinality(MinPositions(TheSample)) >= 2)
  => Retained = [k \in 1..(LaterMin(TheSample) - EarlierMin(TheSample)) |->
                   TheSample[EarlierMin(TheSample) + k - 1]]

\* A probe that succeeded on the sample 2 1 2 1 ... and kept 1 2.
C4_Witness ==
  /\ Sampled
  /\ last.probe.ret = "true"
  /\ medium.kind = "clean"
  /\ medium.fmt.layout = <<2, 1>>
  /\ Retained = <<1, 2>>

\* C5: when the lowest id is seen exactly once in the sample, at whatever
\* position, probe_track returns failure and does not mark the track probed.
C5_SingleOccurrenceFails ==
  (Sampled /\ Cardinality(MinPositions(TheSample)) = 1)
  => (last.probe.ret = "false" /\ ~trk.probed)

(***************************************************************************)
(* Sectors and their payloads (read_track and the free functions under     *)
(* SpecTrack).                                                             *)
(***************************************************************************)
\* C1: after every operation every sector's data buffer is non-null if and
\* only if its status is Good.
C1_DataIffGood ==
  \A i \in Slots : (trk.sectors[i].data # NULL) <=> (trk.sectors[i].status = "GOOD")

\* read_track went through its data reads on a track that was marked probed
\* when it was called.
Reread == last.op = "read_track" /\ last.read.reading /\ ~last.read.probed_here

\* A data read request that transfers the sector with logical id `id'.
Fetches(req, id) == req.first <= id /\ id < req.first + req.count

Requests == {last.read.requests[k] : k \in DOMAIN last.read.requests}

\* The sectors that held a payload when the data reads began.
Populated == {i \in Slots : i < trk.num_sectors /\ last.read.held[i] # NULL}

\* C6 as stated: in a second read_track of a track still marked probed, no
\* data read request fetches a sector that is populated already, and the
\* buffers of the populated sectors are unchanged.
C6_NoRequestFetchesPopulated ==
  Reread =>
    \A i \in Populated :
      /\ trk.sectors[i].data = last.read.held[i]
      /\ \A req \in Requests : ~Fetches(req, trk.sectors[i].log_sector)

\* C6 as amended: in a second read_track of a track still marked probed, no
\* single-sector request is issued for a sector that is populated already, and
\* the buffers of the populated sectors are unchanged; the whole-track
\* transfer is requested whenever the ids are contiguous.
C6_PopulatedSkipped ==
  Reread =>
    /\ \A i \in Populated :
         /\ trk.sectors[i].data = last.read.held[i]
         /\ \A req \in Requests : req.kind = "single" => req.slot # i
    /\ last.read.contiguous =>
         \E req \in Requests : req.kind = "whole" /\ req.count = trk.num_sectors

\* A second read_track of a track with sector 1 populated and sector 2 not:
\* the whole-track transfer failed, and one single-sector request was made.
C6_Witness ==
  /\ Reread
  /\ trk.num_sectors = 2
  /\ Populated = {0}
  /\ ~last.read.read_whole_track
  /\ Len(last.read.requests) = 2
  /\ last.read.requests[2].slot = 1

\* The track as read_track found it when the data reads began.
EntryTrack ==
  [trk EXCEPT !.sectors = [i \in Slots |->
                             [trk.sectors[i] EXCEPT !.data = last.read.held[i]]]]

\* The controller failing the whole-track transfer and serving every single
\* sector.
AllSingle == [whole |-> FALSE, ok |-> Slots]

\* C7: for a probed track with contiguous ids, the payload of every sector
\* after a read_track whose whole-track transfer succeeded is the payload
\* read_track stores when that transfer fails and every sector is read by a
\* transfer of its own.
C7_WholeEqualsSingle ==
  (/\ last.op = "read_track"
   /\ last.read.read_whole_track
   /\ last.read.ret = "true")
  => \E alt \in {read_probed(EntryTrack, NoUB, AllSingle, NoProbe, FALSE)} :
       /\ alt.ret = "true"
       /\ \A i \in Slots :
            i < trk.num_sectors =>
              /\ trk.sectors[i].data = alt.track.sectors[i].data
              /\ trk.sectors[i].data =
                   MediumData(trk.phys_cyl, trk.phys_head, trk.sectors[i].log_sector)

\* A whole-track transfer filled both sectors of a track.
C7_Witness ==
  /\ last.op = "read_track"
  /\ last.read.read_whole_track
  /\ last.read.ret = "true"
  /\ trk.num_sectors = 2
  /\ \A i \in 0..1 : last.read.held[i] = NULL
  /\ trk.sectors[1].data = MediumData(REF_CYL, 0, 2)

(***************************************************************************)
(* The image (write_imd_track under SpecTrack).                            *)
(***************************************************************************)
Wrote == last.op = "write_imd_track"

HeaderFlags == last.out[1].bytes[3]

Emitted(part) == \E k \in DOMAIN last.out : last.out[k].part = part

CylDiffers == {i \in Slots : i < trk.num_sectors /\ trk.sectors[i].log_cyl # trk.phys_cyl}
HeadDiffers == {i \in Slots : i < trk.num_sectors /\ trk.sectors[i].log_head # trk.phys_head}

\* C8: write_imd_track sets flag 0x80 and emits the cylinder map if and only
\* if some sector's logical cylinder differs from the physical cylinder, and
\* sets flag 0x40 and emits the head map if and only if some sector's logical
\* head differs from the physical head.
C8_MapOmission ==
  Wrote =>
    /\ (bit_and(HeaderFlags, IMD_NEED_CYL_MAP) # 0) <=> (CylDiffers # {})
    /\ Emitted("cyl_map") <=> (CylDiffers # {})
    /\ (bit_and(HeaderFlags, IMD_NEED_HEAD_MAP) # 0) <=> (HeadDiffers # {})
    /\ Emitted("head_map") <=> (HeadDiffers # {})

\* A track of two sectors, one of them with another logical cylinder: only
\* the cylinder map flag is set, and only the cylinder map is written.
C8_Witness ==
  /\ Wrote
  /\ trk.num_sectors = 2
  /\ Cardinality(CylDiffers) = 1
  /\ HeaderFlags = IMD_NEED_CYL_MAP
  /\ Emitted("cyl_map")
  /\ ~Emitted("head_map")

(***************************************************************************)
(* process_floppy (Spec).                                                  *)
(***************************************************************************)
CurTrack == disk.tracks[cyl][head]

\* C2: in the retry loop of process_floppy, a sector whose payload an
\* incomplete read_track acquired still holds that payload when the next
\* attempt begins its data reads, and the next attempt does not fetch it.
C2_RetryKeepsPayload ==
  [][(/\ last.op = "read_track"
      /\ last.read.ret = "false"
      /\ last'.op = "read_track"
      /\ last'.read.reading)
     => \A i \in Slots :
          (i < CurTrack.num_sectors /\ CurTrack.sectors[i].data # NULL)
          => /\ \E j \in Slots : last'.read.held[j] = CurTrack.sectors[i].data
             /\ \A k \in DOMAIN last'.read.requests :
                  ~Fetches(last'.read.requests[k], CurTrack.sectors[i].log_sector)]_vars

AfterProbeDisk == last.op = "probe_disk"

Side0 == disk.tracks[REF_CYL][0]

\* C9: after probe_disk, if head 0's first probed sector has a logical
\* cylinder that is half the physical cylinder, cyl_step is 2; if it is
\* double the physical cylinder, probe_disk does not return.
C9_Doublestep ==
  (AfterProbeDisk /\ Side0.probed)
  => /\ (Side0.sectors[0].log_cyl * 2 = REF_CYL /\ last.geom.ret = "returned")
          => disk.cyl_step = 2
     /\ Side0.sectors[0].log_cyl = REF_CYL * 2 => last.geom.ret = "die"

\* probe_disk found a 40-track disk in an 80-track drive.
C9_Witness ==
  /\ AfterProbeDisk
  /\ Side0.probed
  /\ Side0.sectors[0].log_cyl * 2 = REF_CYL
  /\ last.geom.ret = "returned"
  /\ disk.cyl_step = 2

\* C10: whenever probe_disk returns, cyl_step is 1 or 2.
C10_StepOneOrTwo ==
  (AfterProbeDisk /\ last.geom.ret = "returned") => disk.cyl_step \in {1, 2}

Side1 == disk.tracks[REF_CYL][1]

\* probe_disk returned with head 0 of the reference cylinder probed and head 1
\* not.
OnlyHead0Probed ==
  /\ AfterProbeDisk
  /\ last.geom.ret = "returned"
  /\ Side0.probed
  /\ ~Side1.probed

\* No track of head 1 is the current one, and the last read_track, with the
\* ID reads and data reads it made, addressed a track of head 0.
NoHead1Request ==
  /\ head = 0
  /\ last.op = "read_track" => last.pos[2] = 0

\* C11: if the probe of the reference cylinder succeeds on head 0 and fails
\* on head 1, probe_disk sets num_phys_heads to 1 and from then on no ID read
\* and no data read is issued for a track of head 1.
C11_SingleSided ==
  [](OnlyHead0Probed => (disk.num_phys_heads = 1 /\ []NoHead1Request))

\* On a disk found single-sided, head 0 of cylinder 0 was read.
C11_Witness ==
  /\ medium.sides = "single"
  /\ disk.num_phys_heads = 1
  /\ ~Side1.probed
  /\ last.op = "read_track"
  /\ last.pos = <<0, 0>>
  /\ last.read.ret = "true"

\* The position of the k-th track written to the image.
Written(k) == <<image[k].cyl, image[k].head>>

Before(p, q) == p[1] < q[1] \/ (p[1] = q[1] /\ p[2] < q[2])

\* C12: the positions written to the image are strictly increasing in
\* (cylinder, head) order: none is acquired or written twice.
C12_StrictlyIncreasing ==
  \A i, j \in DOMAIN image : i < j => Before(Written(i), Written(j))

\* The failed attempts of the current visit are counted by try: a
\* read_track that returned is at most the tenth of its visit.
AtMostTenAttempts ==
  /\ try \in 0..MAX_TRIES
  /\ last.op = "read_track" =>
       IF last.read.ret = "false" THEN try \in 1..MAX_TRIES
       ELSE try \in 0..(MAX_TRIES - 1)

\* The current track has no record in the image.
NotWritten == \A k \in DOMAIN image : Written(k) # <<cyl, head>>

\* C13: read_track is invoked at most 10 times per track visit; after ten
\* incomplete attempts the session ends fatally and the image holds no record
\* of the track.
C13_BoundedRetry ==
  /\ [](AtMostTenAttempts)
  /\ [][(pc = "try" /\ try = MAX_TRIES)
          => (pc' = "dead" /\ image' = image /\ NotWritten)]_vars
  /\ []((last.op = "die") => (pc = "dead" /\ try = MAX_TRIES /\ NotWritten))

\* Ten attempts at a track failed and the session ended.
C13_Witness ==
  /\ last.op = "die"
  /\ pc = "dead"
  /\ try = MAX_TRIES
  /\ disk.tracks[cyl][head].num_sectors > 0

\* C14: right after probe_track returns success the track's status is
\* Probed.
C14_StatusProbed ==
  (Probed /\ last.probe.ret = "true") => trk.status = "PROBED"

(***************************************************************************)
(* Mode detection (probe_track under SpecProbe).                           *)
(***************************************************************************)
CatalogOrder ==
  << "MFM-250k", "FM-250k", "MFM-300k", "FM-300k", "MFM-500k", "FM-500k",
     "MFM-1000k" >>

\* C15: probe_track tries the data modes in catalog order with one ID read
\* each; after a successful probe data_mode is the first mode whose ID read
\* succeeded, and when no mode's ID read succeeds the probe fails after
\* exactly seven ID reads.
C15_ModeDetection ==
  Probed =>
    /\ last.probe.ret = "true" =>
         /\ trk.data_mode = medium.nfail + 1
         /\ DATA_MODES[trk.data_mode].name = CatalogOrder[medium.nfail + 1]
         /\ last.probe.reads = medium.nfail + 1 + SAMPLE_READS
    /\ medium.nfail = NUM_MODES =>
         /\ last.probe.ret = "false"
         /\ last.probe.reads = NUM_MODES
         /\ ~trk.probed

\* Three modes found nothing and the fourth, FM-300k, was adopted.
C15_Witness ==
  /\ Probed
  /\ last.probe.ret = "true"
  /\ medium.nfail = 3
  /\ DATA_MODES[trk.data_mode].name = "FM-300k"

(***************************************************************************)
(* The sides (probe_disk under Spec).                                      *)
(***************************************************************************)
\* C16: probe_disk compares the two sides' first-sector logical heads only
\* when both heads of the reference cylinder probed; when neither probed it
\* is fatal, and when only head 0 probed the disk is single-sided.
C16_Sidedness ==
  AfterProbeDisk =>
    /\ last.geom.sided \in {"separate", "double"} => (Side0.probed /\ Side1.probed)
    /\ (last.geom.ret # "crash" /\ ~Side0.probed /\ ~Side1.probed)
         => last.geom.ret = "die"
    /\ (last.geom.ret # "crash" /\ Side0.probed /\ ~Side1.probed)
         => (last.geom.sided = "single" /\ disk.num_phys_heads = 1)

(***************************************************************************)
(* The sector records of a track record (write_imd_track under SpecTrack). *)
(***************************************************************************)
\* The chunks before the first sector record: the header and the maps.
Preamble ==
  1 + Cardinality({p \in {"sec_map", "cyl_map", "head_map"} : Emitted(p)})

HasData(i) == trk.sectors[i].data # NULL

\* Where sector i's record starts in the output.
RecordAt(i) ==
  Preamble + i + Cardinality({j \in 0..(i - 1) : HasData(j)}) + 1

\* 128 << s
Shifted(s) == 128 * (2 ^ s)

\* C17: after the 5-byte header and the maps write_imd_track emits exactly
\* num_sectors sector records in array order: the single byte 0 for a sector
\* with no data, or the byte 1 followed by 128 << size code payload bytes
\* for a sector with data.
C17_SectorRecords ==
  Wrote =>
    /\ last.out[1].part = "header" /\ last.out[1].len = 5
    /\ \A k \in 2..Preamble : last.out[k].part \in {"sec_map", "cyl_map", "head_map"}
    /\ Len(last.out) = RecordAt(trk.num_sectors) - 1
    /\ \A i \in 0..(trk.num_sectors - 1) :
         /\ last.out[RecordAt(i)].part = "sdr"
         /\ last.out[RecordAt(i)].len = 1
         /\ last.out[RecordAt(i)].bytes = << IF HasData(i) THEN 1 ELSE 0 >>
         /\ HasData(i) =>
              /\ last.out[RecordAt(i) + 1].part = "data"
              /\ last.out[RecordAt(i) + 1].len = Shifted(trk.sector_size_code)
              /\ last.out[RecordAt(i) + 1].bytes = trk.sectors[i].data
         /\ ~HasData(i) => RecordAt(i + 1) = RecordAt(i) + 1

\* A track of two sectors written with the first one missing.
C17_Witness ==
  /\ Wrote
  /\ trk.num_sectors = 2
  /\ ~HasData(0)
  /\ HasData(1)
  /\ Len(last.out) = Preamble + 3

(***************************************************************************)
(* Termination of the loop over the cylinders (process_floppy under        *)
(* SpecFair).                                                              *)
(***************************************************************************)
\* The session died, or a read_track came back incomplete.
SomethingFailed ==
  \/ pc = "dead"
  \/ last.op = "read_track" /\ last.read.ret # "true"

\* The image holds as many track records as are followed here.
ImageFull == args.image /\ Len(image) = MaxImage

Finished == pc = "exit"

\* C18: on a disk with finitely many cylinders where probe_disk succeeds and
\* every later probe and data read succeeds, the loop over the cylinders
\* finishes and the disk is freed, with and without doublestepping.
C18_Terminates == <>(Finished \/ SomethingFailed \/ ImageFull)

\* The same for the sessions where probe_disk found doublestepping.
C18_DoublestepTerminates ==
  <>(Finished \/ SomethingFailed \/ ImageFull \/ (AfterProbeDisk /\ disk.cyl_step # 2))

(***************************************************************************)
(* What read_track returns (process_floppy under Spec).                    *)
(***************************************************************************)
\* read_track came back to the retry loop with true or false.
Returned == last.op = "read_track" /\ last.read.ret \in {"true", "false"}

AllData ==
  \A i \in Slots : i < CurTrack.num_sectors => CurTrack.sectors[i].data # NULL

ProbeFailed == last.read.probed_here /\ last.probe.ret = "false"

\* A single-sector request of this invocation left its sector without data.
TransferFailed ==
  \E k \in DOMAIN last.read.requests :
    /\ last.read.requests[k].kind = "single"
    /\ CurTrack.sectors[last.read.requests[k].slot].data = NULL

\* C19: read_track returns success if and only if every sector in positions
\* 0..num_sectors-1 has a data buffer on return; it returns incomplete
\* exactly when the probe failed or a single-sector transfer of this
\* invocation failed.
C19_SuccessIffAllData ==
  Returned =>
    /\ last.read.ret = "true" <=> AllData
    /\ last.read.ret = "false" <=> (ProbeFailed \/ TransferFailed)

\* C19 with the failed probe set apart: read_track returns success if and
\* only if its probe did not fail and every sector in positions
\* 0..num_sectors-1 has a data buffer on return.
C19_SuccessIffProbedAllData ==
  Returned =>
    /\ last.read.ret = "true" <=> (~ProbeFailed /\ AllData)
    /\ last.read.ret = "false" <=> (ProbeFailed \/ TransferFailed)

\* An incomplete read that stored one sector and failed on another.
C19_Witness ==
  /\ Returned
  /\ last.read.ret = "false"
  /\ ~ProbeFailed
  /\ TransferFailed
  /\ \E i \in Slots : i < CurTrack.num_sectors /\ CurTrack.sectors[i].data # NULL

(***************************************************************************)
(* The probe before each retry (process_floppy under Spec).                *)
(***************************************************************************)
Incomplete == last.op = "read_track" /\ last.read.ret = "false"

\* C20: between two consecutive read_track attempts of one track visit the
\* probed flag is cleared and the layout is derived again by probe_track, so
\* every data read of a retry follows a successful probe of that attempt.
C20_RetryReprobes ==
  /\ [](Incomplete => ~CurTrack.probed)
  /\ [][(Incomplete /\ last'.op = "read_track")
         => /\ last'.read.probed_here
            /\ last'.probe.ret # "none"
            /\ last'.read.requests # <<>> => last'.probe.ret = "true"]_vars

\* A retry that probed the track again and read it whole.
C20_Witness ==
  /\ last.op = "read_track"
  /\ try >= 1
  /\ last.read.ret = "true"
  /\ last.read.probed_here
  /\ last.probe.ret = "true"
  /\ last.read.requests # <<>>

(***************************************************************************)
(* The probe before the data reads (process_floppy under Spec).            *)
(***************************************************************************)
\* What a data read is addressed with.
Layout(t) ==
  [data_mode |-> t.data_mode, num_sectors |-> t.num_sectors,
   sector_size_code |-> t.sector_size_code,
   ids |-> [i \in Slots |-> << t.sectors[i].log_cyl, t.sectors[i].log_head,
                               t.sectors[i].log_sector >>]]

Positions == Cyls \X Heads

\* This step ran probe_track on the track at p and it returned true there.
LiveProbe(p) ==
  \/ last'.op = "probe_disk" /\ p[1] = REF_CYL
  \/ /\ last'.op = "read_track"
     /\ last'.pos = p
     /\ last'.read.probed_here
     /\ last'.probe.ret = "true"

GoodReads(n) == {i \in 1..n : i <= Len(Replies(medium)) /\ Replies(medium)[i].ok}

\* Two successful ID reads among the first n differ in their size code.
MixedSizes(n) ==
  \E i, j \in GoodReads(n) :
    Replies(medium)[i].size # Replies(medium)[j].size

\* C22: a probe_track in which a successful ID read reports another size
\* code than an earlier successful ID read of the same probe ends in die();
\* so when probe_track returns, true or false, every header it recorded had
\* the track's one sector_size_code.
C22_MixedSizesFatal ==
  Probed =>
    /\ medium.kind = "size" => last.probe.ret = "die"
    /\ last.probe.ret \in {"true", "false"} =>
         /\ ~MixedSizes(last.probe.reads)
         /\ \A i \in GoodReads(last.probe.reads) :
              Replies(medium)[i].size = trk.sector_size_code

\* The last header of the sample held another size code.
C22_Witness ==
  /\ Probed
  /\ medium.kind = "size"
  /\ medium.pos = NumSlots
  /\ MixedSizes(NumSlots)
  /\ last.probe.ret = "die"

(***************************************************************************)
(* The indices of the backward scan (probe_track under SpecProbe).         *)
(***************************************************************************)
\* The sample was taken and the lowest id found: the backward scan ran.
ScannedBack == Probed /\ last.probe.end_pos >= 0

\* C23: every index the backward scan of probe_track reads track->sectors
\* at lies in 0..num_sectors-1, for every sample and every position of the
\* last occurrence of the lowest id, position 0 included.
C23_ScanInBounds ==
  ScannedBack => last.probe.low \in 0..(NumSlots - 1)

(***************************************************************************)
(* lowest and highest (track_scan_sectors in probe_track, under SpecProbe).*)
(***************************************************************************)
\* probe_track reduced the sample and scanned the track it kept.
ScannedTrack ==
  Probed /\ last.probe.ret \in {"true", "crash"} /\ trk.num_sectors >= 1

TrackIds == {trk.sectors[i].log_sector : i \in 0..(trk.num_sectors - 1)}

LeastOf(S) == CHOOSE x \in S : \A y \in S : x <= y

\* C24: on a track with at least one sector track_scan_sectors yields a
\* lowest and a highest sector that are not null and hold the least and the
\* greatest logical sector id of the track, also when every id is 0, so
\* probe_track reads through neither as a null pointer.
C24_LowestHighestFound ==
  ScannedTrack =>
    /\ track_scan_sectors(trk).lowest # -1
    /\ track_scan_sectors(trk).highest # -1
    /\ track_scan_sectors(trk).lowest_id = LeastOf(TrackIds)
    /\ track_scan_sectors(trk).highest_id = MaxOf(TrackIds)
    /\ ~last.probe.null_deref

(***************************************************************************)
(* The cylinder the step is inferred from (probe_disk under Spec).         *)
(***************************************************************************)
\* probe_disk went past the sides and compared sec0->log_cyl.
InferredStep == AfterProbeDisk /\ last.geom.sided # "none"

\* C25: the logical cylinder probe_disk compares with the physical cylinder
\* was recorded by a probe of head 0 that succeeded: it is never the unset
\* value 0xFF nor what a failed probe of head 0 left behind.
C25_StepFromProbedHead0 ==
  InferredStep =>
    /\ Side0.probed
    /\ Side0.sectors[0].log_cyl # UNSET

(***************************************************************************)
(* The slices of the whole-track transfer (read_track under SpecSlice).    *)
(***************************************************************************)
\* log_sector minus the lowest log_sector of the track.
Offset(i) == trk.sectors[i].log_sector - LeastOf(TrackIds)

\* C26: whenever track_scan_sectors reports the ids contiguous, so that
\* read_track takes the whole-track path, every sector's offset lies in
\* 0..num_sectors-1, also when ids repeat; each slice taken is then the
\* transferred data of that sector's id.
C26_SliceInBounds ==
  (last.op = "read_track" /\ last.read.contiguous) =>
    \A i \in 0..(trk.num_sectors - 1) :
      /\ Offset(i) \in 0..(trk.num_sectors - 1)
      /\ (last.read.read_whole_track /\ last.read.ret = "true")
           => trk.sectors[i].data =
                MediumData(trk.phys_cyl, trk.phys_head, trk.sectors[i].log_sector)

\* A track of three sectors, two of them with one id, read whole.
C26_Witness ==
  /\ last.op = "read_track"
  /\ last.read.read_whole_track
  /\ last.read.ret = "true"
  /\ trk.num_sectors = 3
  /\ Cardinality(TrackIds) = 2
  /\ \A i \in 0..2 : trk.sectors[i].data # NULL

====
